---- MODULE Spec2Model ----
(***************************************************************************)
(* Model of the text-to-speech core of machinum-tts (src/audio-app/app.py): *)
(*   TextChunker   - split_text / _split_chunk                              *)
(*   TTSClient     - generate_speech (retry loop with linear backoff)       *)
(*   TTSProcessor  - process_text_to_audio / process_text_to_raw_wavs       *)
(*                                                                         *)
(* A text is a sequence of one-character strings.  Python slices            *)
(* text[a:b] are 0-based and half-open; positions in this module are the    *)
(* Python (0-based) positions.                                              *)
(***************************************************************************)
EXTENDS Integers, Sequences, FiniteSets, TLC

\* ------------------------------------------------------------------ bounds
MaxTextLen == 5      \* longest input text given to split_text
MaxMaxLength == 4    \* largest max_length given to split_text

MaxRetriesBound == 4 \* largest MAX_RETRIES the environment sets
MaxRetryDelay == 2   \* largest RETRY_DELAY (seconds) the environment sets
MaxFrames == 1       \* longest WAV (in frames) the backend answers with
MaxChunks == 3       \* most chunks of one orchestrated request
MaxWorkers == 2      \* largest max_workers of one orchestrated request
RequestRetries == 2     \* MAX_RETRIES during the orchestrated requests
RequestChunkLength == 2 \* MAX_CHUNK_LENGTH during the orchestrated requests
MaxSignalFrames == 4    \* longest WAV (in frames) given to the enhancer alone

Alphabet == {"a", "b", ".", " ", "\n"}

\* Texts of the orchestrated requests
RequestAlphabet == {"a", " "}

\* Sample values of the backend's WAVs, in halves (-0.5 and 1.0)
SampleVals == {-1, 2}

\* Sample rates (Hz) of the backend's WAVs
Rates == {1000, 2000}

\* Sample values (in halves) and sample rates (Hz) of the WAVs given to the
\* enhancer alone: silence is among them, and the rates are low enough for
\* a few frames to fill the 0.4 s block of the loudness meter.
SignalSampleVals == {-1, 0, 2}

SignalRates == {5, 10}

\* ---------------------------------------------------------- Python strings
\* str.isspace() / the characters str.strip() removes
IsSpace(c) == c \in {" ", "\n", "\t", "\r"}

\* text[a:b] with Python's clamping of the bounds
Slice(s, a, b) ==
    LET lo == IF a < 0 THEN 0 ELSE a
        hi == IF b > Len(s) THEN Len(s) ELSE b
    IN  IF lo >= hi THEN << >> ELSE SubSeq(s, lo + 1, hi)

RECURSIVE LStrip(_)
LStrip(s) == IF s # << >> /\ IsSpace(Head(s)) THEN LStrip(Tail(s)) ELSE s

RECURSIVE RStrip(_)
RStrip(s) ==
    IF s # << >> /\ IsSpace(s[Len(s)]) THEN RStrip(SubSeq(s, 1, Len(s) - 1)) ELSE s

\* str.strip()
Strip(s) == RStrip(LStrip(s))

\* str.split('\n'): the pieces between line feeds, empty pieces kept
RECURSIVE SplitLines(_, _)
SplitLines(s, cur) ==
    IF s = << >> THEN << cur >>
    ELSE IF Head(s) = "\n" THEN << cur >> \o SplitLines(Tail(s), << >>)
    ELSE SplitLines(Tail(s), Append(cur, Head(s)))

\* sep occurs in text at Python position pos
MatchAt(text, sep, pos) ==
    /\ pos >= 0
    /\ pos + Len(sep) <= Len(text)
    /\ \A k \in 1..Len(sep) : text[pos + k] = sep[k]

\* text.rfind(sep, start, end): highest position of sep inside text[start:end]
RFind(text, sep, start, end) ==
    LET hi == IF end > Len(text) THEN Len(text) ELSE end
        hits == {p \in start..(hi - Len(sep)) : MatchAt(text, sep, p)}
    IN  IF hits = {} THEN -1 ELSE CHOOSE p \in hits : \A q \in hits : q <= p

\* text.find(sep, start): lowest position of sep at or after start
Find(text, sep, start) ==
    LET hits == {p \in start..(Len(text) - Len(sep)) : MatchAt(text, sep, p)}
    IN  IF hits = {} THEN -1 ELSE CHOOSE p \in hits : \A q \in hits : p <= q

\* ------------------------------------------------------------- TextChunker
\* The separator table of _split_chunk, in the order the code scans it.
\* The en dash and the em dash are the characters "ndash" and "mdash".
separators ==
    << [sep |-> << "\n", "\n" >>,        priority |-> 2],
       [sep |-> << "\n" >>,              priority |-> 2],
       [sep |-> << ".", " " >>,          priority |-> 1],
       [sep |-> << "!", " " >>,          priority |-> 1],
       [sep |-> << "?", " " >>,          priority |-> 1],
       [sep |-> << ";", " " >>,          priority |-> 1],
       [sep |-> << ":", " " >>,          priority |-> 1],
       [sep |-> << ",", " " >>,          priority |-> 0],
       [sep |-> << " ", "-", " " >>,     priority |-> 0],
       [sep |-> << " ", "ndash", " " >>, priority |-> 0],
       [sep |-> << " ", "mdash", " " >>, priority |-> 0],
       [sep |-> << " " >>,               priority |-> 0] >>

\* FindBestSeparator with the priorities ignored: the rightmost separator of
\* the window wins (the condition reduced to "pos > start and pos > best_pos").
RECURSIVE FindBestSeparatorRightmost(_, _, _, _, _)
FindBestSeparatorRightmost(text, start, end, k, best) ==
    IF k > Len(separators) THEN best
    ELSE LET pos == RFind(text, separators[k].sep, start, end)
             priority == separators[k].priority
             take == /\ pos > start
                     /\ pos > best.pos
         IN  FindBestSeparatorRightmost(text, start, end, k + 1,
                 IF take THEN [pos |-> pos, priority |-> priority] ELSE best)

\* The "for sep, priority in separators" loop: best is the pair
\* (best_pos, best_priority) after the first k - 1 table entries.
RECURSIVE FindBestSeparator(_, _, _, _, _)
FindBestSeparator(text, start, end, k, best) ==
    IF k > Len(separators) THEN best
    ELSE LET pos == RFind(text, separators[k].sep, start, end)
             priority == separators[k].priority
             take == /\ pos > start
                     /\ \/ priority > best.priority
                        \/ (priority = best.priority /\ pos > best.pos)
         IN  FindBestSeparator(text, start, end, k + 1,
                 IF take THEN [pos |-> pos, priority |-> priority] ELSE best)

\* SelectCut with the separator search not bounded by the window's end
\* (text.rfind(sep, start) in place of text.rfind(sep, start, end)).
SelectCutUnbounded(text, start, max_length) ==
    LET end == start + max_length
        best == FindBestSeparator(text, start, Len(text), 1,
                                  [pos |-> -1, priority |-> -1])
        space_pos == Find(text, << " " >>, start + (max_length \div 2))
    IN  IF best.pos <= start
        THEN IF space_pos # -1 /\ space_pos < end
             THEN [best_pos |-> space_pos, branch |-> "midpoint_space"]
             ELSE [best_pos |-> end - 1, branch |-> "forced"]
        ELSE [best_pos |-> best.pos, branch |-> "separator"]

\* SelectCut that never breaks a word: with no separator in the window the
\* cut is put at the next space, or at the end of the text.
SelectCutKeepsWords(text, start, max_length) ==
    LET end == start + max_length
        best == FindBestSeparator(text, start, end, 1,
                                  [pos |-> -1, priority |-> -1])
        space_pos == Find(text, << " " >>, start + (max_length \div 2))
    IN  IF best.pos <= start
        THEN IF space_pos # -1
             THEN [best_pos |-> space_pos, branch |-> "midpoint_space"]
             ELSE [best_pos |-> Len(text) - 1, branch |-> "forced"]
        ELSE [best_pos |-> best.pos, branch |-> "separator"]

\* SelectCut that looks for the space from the middle of the window before
\* it looks at the separator found.
SelectCutSpaceFirst(text, start, max_length) ==
    LET end == start + max_length
        best == FindBestSeparator(text, start, end, 1,
                                  [pos |-> -1, priority |-> -1])
        space_pos == Find(text, << " " >>, start + (max_length \div 2))
    IN  IF space_pos # -1 /\ space_pos < end
        THEN [best_pos |-> space_pos, branch |-> "midpoint_space"]
        ELSE IF best.pos <= start
        THEN [best_pos |-> end - 1, branch |-> "forced"]
        ELSE [best_pos |-> best.pos, branch |-> "separator"]

\* The cut of one window: the separator found, else the first space at or
\* after the middle of the window, else the last character of the window.
SelectCut(text, start, max_length) ==
    LET end == start + max_length
        best == FindBestSeparator(text, start, end, 1,
                                  [pos |-> -1, priority |-> -1])
        space_pos == Find(text, << " " >>, start + (max_length \div 2))
    IN  IF best.pos <= start
        THEN IF space_pos # -1 /\ space_pos < end
             THEN [best_pos |-> space_pos, branch |-> "midpoint_space"]
             ELSE [best_pos |-> end - 1, branch |-> "forced"]
        ELSE [best_pos |-> best.pos, branch |-> "separator"]

\* "while start < len(text) and text[start].isspace(): start += 1"
RECURSIVE SkipSpaces(_, _)
SkipSpaces(text, start) ==
    IF start < Len(text) /\ IsSpace(text[start + 1])
    THEN SkipSpaces(text, start + 1) ELSE start

\* SplitChunkLoop with the piece cut one character short
\* (text[start:best_pos] in place of text[start:best_pos + 1]).
RECURSIVE SplitChunkLoopDropCut(_, _, _)
SplitChunkLoopDropCut(text, max_length, start) ==
    IF ~(start < Len(text)) THEN << >>
    ELSE IF start + max_length >= Len(text)
    THEN << [start |-> start, branch |-> "rest", best_pos |-> Len(text) - 1,
             next |-> Len(text),
             chunk |-> Strip(Slice(text, start, Len(text))), emitted |-> TRUE] >>
    ELSE LET cut == SelectCut(text, start, max_length)
             chunk == Strip(Slice(text, start, cut.best_pos))
             next == SkipSpaces(text, cut.best_pos + 1)
         IN  << [start |-> start, branch |-> cut.branch,
                 best_pos |-> cut.best_pos, next |-> next,
                 chunk |-> chunk, emitted |-> (chunk # << >>)] >>
             \o SplitChunkLoopDropCut(text, max_length, next)

\* SplitChunkLoop that appends the pieces as sliced, without .strip()
RECURSIVE SplitChunkLoopNoStrip(_, _, _)
SplitChunkLoopNoStrip(text, max_length, start) ==
    IF ~(start < Len(text)) THEN << >>
    ELSE IF start + max_length >= Len(text)
    THEN << [start |-> start, branch |-> "rest", best_pos |-> Len(text) - 1,
             next |-> Len(text),
             chunk |-> Slice(text, start, Len(text)), emitted |-> TRUE] >>
    ELSE LET cut == SelectCut(text, start, max_length)
             chunk == Slice(text, start, cut.best_pos + 1)
             next == SkipSpaces(text, cut.best_pos + 1)
         IN  << [start |-> start, branch |-> cut.branch,
                 best_pos |-> cut.best_pos, next |-> next,
                 chunk |-> chunk, emitted |-> (chunk # << >>)] >>
             \o SplitChunkLoopNoStrip(text, max_length, next)

\* SplitChunkLoop with the forced cut at end - 2 in place of end - 1; the
\* unrolling stops at the first iteration that leaves start where it was,
\* which the loop would repeat for ever.
RECURSIVE SplitChunkLoopForcedCutShort(_, _, _)
SplitChunkLoopForcedCutShort(text, max_length, start) ==
    IF ~(start < Len(text)) THEN << >>
    ELSE IF start + max_length >= Len(text)
    THEN << [start |-> start, branch |-> "rest", best_pos |-> Len(text) - 1,
             next |-> Len(text),
             chunk |-> Strip(Slice(text, start, Len(text))), emitted |-> TRUE] >>
    ELSE LET cut == SelectCut(text, start, max_length)
             best_pos == IF cut.branch = "forced"
                         THEN cut.best_pos - 1 ELSE cut.best_pos
             chunk == Strip(Slice(text, start, best_pos + 1))
             next == SkipSpaces(text, best_pos + 1)
         IN  << [start |-> start, branch |-> cut.branch,
                 best_pos |-> best_pos, next |-> next,
                 chunk |-> chunk, emitted |-> (chunk # << >>)] >>
             \o (IF next <= start THEN << >>
                 ELSE SplitChunkLoopForcedCutShort(text, max_length, next))

\* The iterations of the "while start < len(text)" loop of _split_chunk from
\* position start on: one record per iteration with the window start, the
\* branch taken, the cut and the piece cut off (empty pieces are not
\* appended to the chunks).
RECURSIVE SplitChunkLoop(_, _, _)
SplitChunkLoop(text, max_length, start) ==
    IF ~(start < Len(text)) THEN << >>
    ELSE IF start + max_length >= Len(text)
    THEN << [start |-> start, branch |-> "rest", best_pos |-> Len(text) - 1,
             next |-> Len(text),
             chunk |-> Strip(Slice(text, start, Len(text))), emitted |-> TRUE] >>
    ELSE LET cut == SelectCut(text, start, max_length)
             chunk == Strip(Slice(text, start, cut.best_pos + 1))
             next == SkipSpaces(text, cut.best_pos + 1)
         IN  << [start |-> start, branch |-> cut.branch,
                 best_pos |-> cut.best_pos, next |-> next,
                 chunk |-> chunk, emitted |-> (chunk # << >>)] >>
             \o SplitChunkLoop(text, max_length, next)

RECURSIVE EmittedChunks(_)
EmittedChunks(iters) ==
    IF iters = << >> THEN << >>
    ELSE (IF Head(iters).emitted THEN << Head(iters).chunk >> ELSE << >>)
         \o EmittedChunks(Tail(iters))

\* TextChunker._split_chunk
SplitChunk(text, max_length) ==
    IF Len(text) <= max_length THEN << text >>
    ELSE EmittedChunks(SplitChunkLoop(text, max_length, 0))

\* SplitTextLoop that flushes one character early (">= max_length" in place
\* of "> max_length").
RECURSIVE SplitTextLoopFlushEarly(_, _, _, _)
SplitTextLoopFlushEarly(lines, max_length, current_chunk, chunks) ==
    IF lines = << >>
    THEN IF current_chunk # << >>
         THEN chunks \o SplitChunk(current_chunk, max_length)
         ELSE chunks
    ELSE LET line == Strip(Head(lines))
         IN  IF line = << >>
             THEN SplitTextLoopFlushEarly(Tail(lines), max_length, current_chunk, chunks)
             ELSE IF /\ current_chunk # << >>
                     /\ Len(current_chunk) + Len(line) + 1 >= max_length
             THEN SplitTextLoopFlushEarly(Tail(lines), max_length, line,
                                chunks \o SplitChunk(current_chunk, max_length))
             ELSE SplitTextLoopFlushEarly(Tail(lines), max_length,
                      current_chunk
                        \o (IF current_chunk # << >> THEN << "\n" >> ELSE << >>)
                        \o line,
                      chunks)

\* One pass of the "for line in lines" loop of split_text and the flush of
\* the remaining buffer after it.
RECURSIVE SplitTextLoop(_, _, _, _)
SplitTextLoop(lines, max_length, current_chunk, chunks) ==
    IF lines = << >>
    THEN IF current_chunk # << >>
         THEN chunks \o SplitChunk(current_chunk, max_length)
         ELSE chunks
    ELSE LET line == Strip(Head(lines))
         IN  IF line = << >>
             THEN SplitTextLoop(Tail(lines), max_length, current_chunk, chunks)
             ELSE IF /\ current_chunk # << >>
                     /\ Len(current_chunk) + Len(line) + 1 > max_length
             THEN SplitTextLoop(Tail(lines), max_length, line,
                                chunks \o SplitChunk(current_chunk, max_length))
             ELSE SplitTextLoop(Tail(lines), max_length,
                      current_chunk
                        \o (IF current_chunk # << >> THEN << "\n" >> ELSE << >>)
                        \o line,
                      chunks)

\* SplitText answering a blank text with the text itself as the one chunk
\* ("return [text]" in place of "return []").
SplitTextBlankChunk(text, max_length) ==
    IF Strip(text) = << >> THEN << text >>
    ELSE SplitTextLoop(SplitLines(Strip(text), << >>), max_length, << >>, << >>)

\* TextChunker.split_text
SplitText(text, max_length) ==
    IF Strip(text) = << >> THEN << >>
    ELSE SplitTextLoop(SplitLines(Strip(text), << >>), max_length, << >>, << >>)

\* The while-loop iterations of one call _split_chunk(text, max_length):
\* none when the text fits and is returned whole.
SplitChunkIters(text, max_length) ==
    IF Len(text) <= max_length THEN << >>
    ELSE SplitChunkLoop(text, max_length, 0)

\* SplitTextFlushes whose test for joining a line leaves out the line feed
\* (len(current_chunk) + len(line) > max_length).
RECURSIVE SplitTextFlushesJoinUncounted(_, _, _, _)
SplitTextFlushesJoinUncounted(lines, max_length, current_chunk, flushes) ==
    LET flush == [text |-> current_chunk,
                  iters |-> SplitChunkIters(current_chunk, max_length)]
    IN  IF lines = << >>
        THEN IF current_chunk # << >> THEN Append(flushes, flush) ELSE flushes
        ELSE LET line == Strip(Head(lines))
             IN  IF line = << >>
                 THEN SplitTextFlushesJoinUncounted(Tail(lines), max_length,
                                                    current_chunk, flushes)
                 ELSE IF /\ current_chunk # << >>
                         /\ Len(current_chunk) + Len(line) > max_length
                 THEN SplitTextFlushesJoinUncounted(Tail(lines), max_length, line,
                                                    Append(flushes, flush))
                 ELSE SplitTextFlushesJoinUncounted(Tail(lines), max_length,
                          current_chunk
                            \o (IF current_chunk # << >> THEN << "\n" >> ELSE << >>)
                            \o line,
                          flushes)

\* The calls of _split_chunk the loop of split_text makes, in order: for each
\* the buffer (current_chunk) it is given and the iterations of its loop.
RECURSIVE SplitTextFlushes(_, _, _, _)
SplitTextFlushes(lines, max_length, current_chunk, flushes) ==
    LET flush == [text |-> current_chunk,
                  iters |-> SplitChunkIters(current_chunk, max_length)]
    IN  IF lines = << >>
        THEN IF current_chunk # << >> THEN Append(flushes, flush) ELSE flushes
        ELSE LET line == Strip(Head(lines))
             IN  IF line = << >>
                 THEN SplitTextFlushes(Tail(lines), max_length, current_chunk, flushes)
                 ELSE IF /\ current_chunk # << >>
                         /\ Len(current_chunk) + Len(line) + 1 > max_length
                 THEN SplitTextFlushes(Tail(lines), max_length, line,
                                       Append(flushes, flush))
                 ELSE SplitTextFlushes(Tail(lines), max_length,
                          current_chunk
                            \o (IF current_chunk # << >> THEN << "\n" >> ELSE << >>)
                            \o line,
                          flushes)

\* The calls of _split_chunk during split_text(text, max_length)
Flushes(text, max_length) ==
    IF Strip(text) = << >> THEN << >>
    ELSE SplitTextFlushes(SplitLines(Strip(text), << >>), max_length, << >>, << >>)

\* --------------------------------------------------------------- TTSClient
\* Python values carry their type in the field "kind".
None == [kind |-> "None"]

\* response.content of the synthesis backend: a WAV file with its sample
\* rate and samples (in halves: 2 is the float 1.0, -1 is -0.5), or bytes
\* that do not decode as audio.
WavBytes(sr, samples) ==
    [kind |-> "bytes", decodable |-> TRUE, sr |-> sr, samples |-> samples]

CorruptBytes == [kind |-> "bytes", decodable |-> FALSE, sr |-> 0, samples |-> << >>]

\* What one requests.post can do: answer with a status and a body, or raise.
HttpResponse(status, content) == [raised |-> FALSE, status |-> status, content |-> content]

HttpException == [raised |-> TRUE, status |-> 0, content |-> None]

\* generate_speech at its entry: the "for attempt in range(max_retries)"
\* loop is about to start.
GenStart(max_retries) ==
    [pc |-> IF max_retries > 0 THEN "try" ELSE "exhausted",
     attempt |-> 0, log |-> << >>, sleeps |-> << >>,
     content |-> None, error_attempts |-> -1]

\* GenTry without the except clause: an exception of the request leaves the
\* call at once.
GenTryPropagates(g, r) ==
    IF ~r.raised /\ r.status = 200
    THEN [g EXCEPT !.pc = "returned", !.log = Append(@, r), !.content = r.content]
    ELSE IF r.raised
    THEN [g EXCEPT !.pc = "raised", !.log = Append(@, r)]
    ELSE [g EXCEPT !.pc = "backoff", !.log = Append(@, r)]

\* The try block of one attempt: the request is sent and r comes back.
\* Status 200 returns response.content; any other status and any exception
\* is logged and falls through to the backoff.
GenTry(g, r) ==
    IF ~r.raised /\ r.status = 200
    THEN [g EXCEPT !.pc = "returned", !.log = Append(@, r), !.content = r.content]
    ELSE [g EXCEPT !.pc = "backoff", !.log = Append(@, r)]

RECURSIVE Pow2(_)
Pow2(n) == IF n = 0 THEN 1 ELSE 2 * Pow2(n - 1)

\* GenBackoff with the exponential wait its comment speaks of
\* (RETRY_DELAY * 2 ** attempt).
GenBackoffExponential(g, max_retries, retry_delay) ==
    [g EXCEPT !.sleeps = IF g.attempt < max_retries - 1
                         THEN Append(@, retry_delay * Pow2(g.attempt)) ELSE @,
              !.attempt = @ + 1,
              !.pc = IF g.attempt + 1 < max_retries THEN "try" ELSE "exhausted"]

\* GenBackoff with a loop that runs once too often (range(max_retries + 1)).
GenBackoffOneMore(g, max_retries, retry_delay) ==
    [g EXCEPT !.sleeps = IF g.attempt < max_retries - 1
                         THEN Append(@, retry_delay * (g.attempt + 1)) ELSE @,
              !.attempt = @ + 1,
              !.pc = IF g.attempt + 1 < max_retries + 1 THEN "try" ELSE "exhausted"]

\* "if attempt < max_retries - 1: time.sleep(RETRY_DELAY * (attempt + 1))"
\* and the step of the for loop.
GenBackoff(g, max_retries, retry_delay) ==
    [g EXCEPT !.sleeps = IF g.attempt < max_retries - 1
                         THEN Append(@, retry_delay * (g.attempt + 1)) ELSE @,
              !.attempt = @ + 1,
              !.pc = IF g.attempt + 1 < max_retries THEN "try" ELSE "exhausted"]

\* GenRaise reporting the loop variable in place of max_retries.
GenRaiseLoopVar(g, max_retries) ==
    [g EXCEPT !.pc = "raised", !.error_attempts = g.attempt - 1]

\* "raise Exception(f'Failed to generate speech after {max_retries} attempts')"
GenRaise(g, max_retries) ==
    [g EXCEPT !.pc = "raised", !.error_attempts = max_retries]

\* One whole call of generate_speech against a backend that answers the
\* k-th request with resps[k].
RECURSIVE RunGenerateSpeech(_, _, _, _)
RunGenerateSpeech(g, resps, max_retries, retry_delay) ==
    IF g.pc = "try"
    THEN RunGenerateSpeech(GenTry(g, resps[g.attempt + 1]), resps, max_retries, retry_delay)
    ELSE IF g.pc = "backoff"
    THEN RunGenerateSpeech(GenBackoff(g, max_retries, retry_delay), resps, max_retries, retry_delay)
    ELSE IF g.pc = "exhausted"
    THEN RunGenerateSpeech(GenRaise(g, max_retries), resps, max_retries, retry_delay)
    ELSE g

\* ---------------------------------------------------------- AudioProcessor
\* The quotient n / d truncated toward zero, as numpy's astype(int16) does.
TruncDiv(n, d) == IF n >= 0 THEN n \div d ELSE -((-n) \div d)

\* Python's round() of n / d for n >= 0: to the nearest, halves to even.
PyRound(n, d) ==
    LET q == n \div d
        r == n % d
    IN  IF 2 * r < d THEN q
        ELSE IF 2 * r > d THEN q + 1
        ELSE IF q % 2 = 0 THEN q ELSE q + 1

AudioSegment(data, frame_rate) ==
    [kind |-> "AudioSegment", frame_rate |-> frame_rate, data |-> data]

\* _numpy_to_audiosegment: (audio_data * 32767).astype(np.int16) of samples
\* given in halves, mono, at rate sr.
NumpyToAudioSegment(samples, sr) ==
    AudioSegment([k \in 1..Len(samples) |-> TruncDiv(samples[k] * 32767, 2)], sr)

\* enhance_wav_bytes(wav_bytes) with settings = None, as the orchestrator
\* calls it: every stage flag is off, so the decoded samples go to the
\* 16-bit conversion at their native rate.  Bytes that do not decode make
\* librosa.load raise; the except clause returns None.
EnhanceWavBytes(wav_bytes) ==
    IF ~wav_bytes.decodable THEN None
    ELSE NumpyToAudioSegment(wav_bytes.samples, wav_bytes.sr)

\* len(segment) of pydub: the duration in milliseconds,
\* round(1000 * frame_count / frame_rate).
SegmentLen(segment) == PyRound(1000 * Len(segment.data), segment.frame_rate)

\* "if segment:": None is false, and an AudioSegment is true exactly when
\* its len() is not 0.
Truthy(v) == v.kind = "AudioSegment" /\ SegmentLen(v) # 0

\* AudioSegment.empty()
EmptySegment == AudioSegment(<< >>, 1)

\* merged_audio + segment of pydub: both sides are brought to the higher
\* frame rate and the data are joined with no crossfade.  (Within one
\* request every segment has the backend's rate, so only the empty
\* segment is ever brought to another rate.)
SegmentAdd(a, b) ==
    AudioSegment(a.data \o b.data,
                 IF a.frame_rate > b.frame_rate THEN a.frame_rate ELSE b.frame_rate)

\* ------------------------------------------- AudioProcessor, with settings
\* The float samples of audio_data are kept as the integers samples[k] over
\* the common denominator den: the k-th sample is samples[k] / den.
Audio(samples, den) == [kind |-> "ndarray", samples |-> samples, den |-> den]

\* The four keys the enhancer reads from its settings
StageFlags == {"resample", "noise_reduction", "dynamic_compression",
               "loudness_normalization"}

\* A Python dict of settings: items maps the keys that are present to their
\* values
Dict(items) == [kind |-> "dict", items |-> items]

\* "settings = settings or {'resample': False, ...}": None and the empty
\* dict are both false and give way to the defaults.
SettingsOrDefault(settings) ==
    IF settings.kind = "None" \/ DOMAIN settings.items = {}
    THEN Dict([f \in StageFlags |-> FALSE])
    ELSE settings

\* SettingsGet reading an absent key as True (settings.get(flag, True)).
SettingsGetDefaultOn(settings, flag) ==
    IF flag \in DOMAIN settings.items THEN settings.items[flag] ELSE TRUE

\* settings.get(flag, False)
SettingsGet(settings, flag) ==
    IF flag \in DOMAIN settings.items THEN settings.items[flag] ELSE FALSE

\* Statements of another method body: the loudness normalization ahead of
\* the compression.
StatementsLoudnessFirst ==
    << "resample", "noise_reduction", "loudness_normalization",
       "dynamic_compression", "convert" >>

\* The statements of the method body after librosa.load, in program order
Statements ==
    << "resample", "noise_reduction", "dynamic_compression",
       "loudness_normalization", "convert" >>

\* The statement the control reaches after statement s
StatementAfter(s) ==
    LET k == CHOOSE j \in 1..Len(Statements) : Statements[j] = s
    IN  IF k = Len(Statements) THEN "returned" ELSE Statements[k + 1]

\* librosa.resample(y, orig_sr, target_sr) gives ceil(len(y) * target_sr /
\* orig_sr) samples.  librosa is outside the repository: for its
\* band-limited interpolation the model takes the nearest earlier sample.
Resample(y, orig_sr, target_sr) ==
    LET n == (Len(y.samples) * target_sr + orig_sr - 1) \div orig_sr
    IN  Audio([j \in 1..n |-> y.samples[((j - 1) * orig_sr) \div target_sr + 1]], y.den)

\* nr.reduce_noise(y, sr, stationary=False).  noisereduce is outside the
\* repository: for its spectral gating the model takes an attenuation of
\* every sample by one half, which keeps the length and keeps silence.
ReduceNoise(y, sr) == Audio(y.samples, 2 * y.den)

\* 0.9 * tanh(1.5 * x) for |x| = q / 4, in units of 1 / 10000 (cut off
\* after the fourth decimal): the samples the model feeds are 0, 1/4, 1/2
\* and 1 in absolute value.
TanhTable(q) ==
    CASE q = 0 -> 0
      [] q = 1 -> 3225
      [] q = 2 -> 5716
      [] q = 4 -> 8146

\* DynamicCompression without the factor 0.9 (np.tanh(audio * 1.5)).
DynamicCompressionUnscaled(audio) ==
    LET quarters(n) == (4 * n) \div audio.den
        y(n) == IF n >= 0 THEN (10 * TanhTable(quarters(n))) \div 9
                ELSE -((10 * TanhTable(quarters(-n))) \div 9)
    IN  Audio([k \in 1..Len(audio.samples) |-> y(audio.samples[k])], 10000)

\* _dynamic_compression: np.tanh(audio * 1.5) * 0.9, sample by sample
DynamicCompression(audio) ==
    LET quarters(n) == (4 * n) \div audio.den
        y(n) == IF n >= 0 THEN TanhTable(quarters(n)) ELSE -TanhTable(quarters(-n))
    IN  Audio([k \in 1..Len(audio.samples) |-> y(audio.samples[k])], 10000)

\* meter.integrated_loudness(audio) of pyloudnorm.Meter(sr): it raises
\* ValueError for audio shorter than its gating block of 0.4 s, gives -inf
\* for digital silence and a finite value in LUFS otherwise.
IntegratedLoudness(audio, sr) ==
    IF 5 * Len(audio.samples) < 2 * sr THEN "ValueError"
    ELSE IF \A k \in 1..Len(audio.samples) : audio.samples[k] = 0 THEN "-inf"
    ELSE "finite"

\* pyln.normalize.loudness(audio, loudness, target_lufs): the samples times
\* the gain 10 ** ((target_lufs - loudness) / 20).  pyloudnorm is outside
\* the repository: the model takes the gain of one quarter for it.
NormalizeLoudness(audio) == Audio(audio.samples, 4 * audio.den)

\* LoudnessNormalize without a branch for silence: the measurement of -inf
\* ends in an exception.
LoudnessNormalizeRaisesOnSilence(audio, sr) ==
    LET loudness == IntegratedLoudness(audio, sr)
    IN  IF loudness = "finite"
        THEN [raised |-> FALSE, loudness |-> loudness, audio |-> NormalizeLoudness(audio)]
        ELSE [raised |-> TRUE, loudness |-> loudness, audio |-> audio]

\* _loudness_normalize(audio, sr): what it measured, whether it raised and
\* the audio it returned.
LoudnessNormalize(audio, sr) ==
    LET loudness == IntegratedLoudness(audio, sr)
    IN  IF loudness = "ValueError"
        THEN [raised |-> TRUE, loudness |-> loudness, audio |-> audio]
        ELSE IF loudness = "-inf"
        THEN [raised |-> FALSE, loudness |-> loudness, audio |-> audio]
        ELSE [raised |-> FALSE, loudness |-> loudness, audio |-> NormalizeLoudness(audio)]

\* _numpy_to_audiosegment of samples over any denominator
ToAudioSegment(audio, sr) ==
    AudioSegment([k \in 1..Len(audio.samples) |->
                     TruncDiv(audio.samples[k] * 32767, audio.den)], sr)

\* One call of enhance_wav_bytes or enhance_and_load_segment (the two have
\* the same body) at its entry.  steps is the record of the statements run
\* so far: for each whether its stage was applied, and audio_data and sr
\* after it.
EnhStart(method, wav_bytes, sr_target, settings) ==
    [pc |-> "load", method |-> method, wav_bytes |-> wav_bytes,
     sr_target |-> sr_target, given |-> settings,
     settings |-> SettingsOrDefault(settings),
     audio_data |-> None, sr_native |-> 0, sr |-> 0,
     loudness |-> "unmeasured", steps |-> << >>, result |-> None]

\* An exception inside the try block: the except clause returns None.
EnhFail(e) == [e EXCEPT !.pc = "returned", !.result = None]

\* The end of one statement: audio_data and sr as it leaves them
EnhStep(e, stage, applied, audio_data, sr) ==
    [e EXCEPT !.steps = Append(@, [stage |-> stage, applied |-> applied,
                                   audio_data |-> audio_data, sr |-> sr]),
              !.audio_data = audio_data,
              !.sr = sr,
              !.pc = StatementAfter(stage)]

\* "audio_data, sr_native = librosa.load(..., sr=None); sr = sr_native"
EnhLoad(e) ==
    IF ~e.wav_bytes.decodable THEN EnhFail(e)
    ELSE [e EXCEPT !.audio_data = Audio(e.wav_bytes.samples, 2),
                   !.sr_native = e.wav_bytes.sr,
                   !.sr = e.wav_bytes.sr,
                   !.pc = Statements[1]]

\* "if settings.get('resample', False) and sr_native != sr_target: ..."
EnhResample(e) ==
    IF SettingsGet(e.settings, "resample") /\ e.sr_native # e.sr_target
    THEN EnhStep(e, "resample", TRUE,
                 Resample(e.audio_data, e.sr_native, e.sr_target), e.sr_target)
    ELSE EnhStep(e, "resample", FALSE, e.audio_data, e.sr)

\* "if settings.get('noise_reduction', False): ..."
EnhNoiseReduction(e) ==
    IF SettingsGet(e.settings, "noise_reduction")
    THEN EnhStep(e, "noise_reduction", TRUE, ReduceNoise(e.audio_data, e.sr), e.sr)
    ELSE EnhStep(e, "noise_reduction", FALSE, e.audio_data, e.sr)

\* "if settings.get('dynamic_compression', False): ..."
EnhDynamicCompression(e) ==
    IF SettingsGet(e.settings, "dynamic_compression")
    THEN EnhStep(e, "dynamic_compression", TRUE, DynamicCompression(e.audio_data), e.sr)
    ELSE EnhStep(e, "dynamic_compression", FALSE, e.audio_data, e.sr)

\* "if settings.get('loudness_normalization', False): ..."
EnhLoudnessNormalization(e) ==
    IF SettingsGet(e.settings, "loudness_normalization")
    THEN LET r == LoudnessNormalize(e.audio_data, e.sr)
             m == [e EXCEPT !.loudness = r.loudness]
         IN  IF r.raised THEN EnhFail(m)
             ELSE EnhStep(m, "loudness_normalization", TRUE, r.audio, e.sr)
    ELSE EnhStep(e, "loudness_normalization", FALSE, e.audio_data, e.sr)

\* "return self._numpy_to_audiosegment(audio_data, sr)"
EnhConvert(e) ==
    [EnhStep(e, "convert", TRUE, e.audio_data, e.sr)
        EXCEPT !.result = ToAudioSegment(e.audio_data, e.sr)]

\* ----------------------------------------------------------- TTSProcessor
\* A Python dict is a sequence of entries in insertion order.
DictHas(d, key) == \E k \in 1..Len(d) : d[k].key = key

DictGet(d, key) == d[CHOOSE k \in 1..Len(d) : d[k].key = key].value

\* d[key] = value: a present key keeps its place, a new key goes last
DictSet(d, key, value) ==
    IF DictHas(d, key)
    THEN [k \in 1..Len(d) |-> IF d[k].key = key THEN [key |-> key, value |-> value] ELSE d[k]]
    ELSE Append(d, [key |-> key, value |-> value])

NoError == [kind |-> "None", msg |-> "", chunk |-> 0]

PyError(kind, msg, chunk) == [kind |-> kind, msg |-> msg, chunk |-> chunk]

\* MergeSegments that leaves a failed chunk out and goes on
\* ("continue" in place of "raise").
RECURSIVE MergeSegmentsSkipFailed(_, _, _, _, _)
MergeSegmentsSkipFailed(res, n, i, merged_audio, successful_segments) ==
    IF i >= n
    THEN IF successful_segments = 0
         THEN [output |-> None,
               error |-> PyError("Exception", "All chunks failed to process", 0)]
         ELSE [output |-> merged_audio, error |-> NoError]
    ELSE IF DictHas(res, i) /\ DictGet(res, i) # None
    THEN MergeSegmentsSkipFailed(res, n, i + 1,
                                 SegmentAdd(merged_audio, DictGet(res, i)),
                                 successful_segments + 1)
    ELSE MergeSegmentsSkipFailed(res, n, i + 1, merged_audio, successful_segments)

\* MergeSegments that walks the dict in insertion order
\* ("for segment in results.values()").
RECURSIVE MergeSegmentsByArrival(_, _, _, _, _)
MergeSegmentsByArrival(res, n, i, merged_audio, successful_segments) ==
    IF i >= n
    THEN IF successful_segments = 0
         THEN [output |-> None,
               error |-> PyError("Exception", "All chunks failed to process", 0)]
         ELSE [output |-> merged_audio, error |-> NoError]
    ELSE IF i < Len(res) /\ res[i + 1].value # None
    THEN MergeSegmentsByArrival(res, n, i + 1,
                                SegmentAdd(merged_audio, res[i + 1].value),
                                successful_segments + 1)
    ELSE [output |-> None, error |-> PyError("Exception", "Chunks process failed", 0)]

\* The merge loop of process_text_to_audio from index i on, with the
\* segments merged and counted so far; n is len(chunks).
RECURSIVE MergeSegments(_, _, _, _, _)
MergeSegments(res, n, i, merged_audio, successful_segments) ==
    IF i >= n
    THEN IF successful_segments = 0
         THEN [output |-> None,
               error |-> PyError("Exception", "All chunks failed to process", 0)]
         ELSE [output |-> merged_audio, error |-> NoError]
    ELSE IF DictHas(res, i) /\ DictGet(res, i) # None
    THEN MergeSegments(res, n, i + 1, SegmentAdd(merged_audio, DictGet(res, i)),
                       successful_segments + 1)
    ELSE [output |-> None, error |-> PyError("Exception", "Chunks process failed", 0)]

\* CollectWavs that walks the dict in insertion order.
RECURSIVE CollectWavsByArrival(_, _, _, _)
CollectWavsByArrival(res, n, i, wav_files_content) ==
    IF i >= n
    THEN [output |-> [kind |-> "list", items |-> wav_files_content], error |-> NoError]
    ELSE IF i < Len(res) /\ res[i + 1].value # None
    THEN CollectWavsByArrival(res, n, i + 1, Append(wav_files_content, res[i + 1].value))
    ELSE [output |-> None,
          error |-> PyError("Exception", "Chunk %d failed to process, aborting.", i + 1)]

\* The collecting loop of process_text_to_raw_wavs from index i on.
RECURSIVE CollectWavs(_, _, _, _)
CollectWavs(res, n, i, wav_files_content) ==
    IF i >= n
    THEN [output |-> [kind |-> "list", items |-> wav_files_content], error |-> NoError]
    ELSE IF DictHas(res, i) /\ DictGet(res, i) # None
    THEN CollectWavs(res, n, i + 1, Append(wav_files_content, DictGet(res, i)))
    ELSE [output |-> None,
          error |-> PyError("Exception", "Chunk %d failed to process, aborting.", i + 1)]

\* ------------------------------------------------------------------ inputs
RECURSIVE SeqsUpTo(_, _)
SeqsUpTo(S, n) ==
    IF n = 0 THEN {<< >>}
    ELSE LET shorter == SeqsUpTo(S, n - 1)
         IN  shorter \cup {Append(s, c) : s \in {t \in shorter : Len(t) = n - 1}, c \in S}

Texts == SeqsUpTo(Alphabet, MaxTextLen)

\* "Hello world. This is a test sentence."
ExampleText ==
    << "H", "e", "l", "l", "o", " ", "w", "o", "r", "l", "d", ".", " ",
       "T", "h", "i", "s", " ", "i", "s", " ", "a", " ", "t", "e", "s", "t", " ",
       "s", "e", "n", "t", "e", "n", "c", "e", "." >>

RequestTexts == SeqsUpTo(RequestAlphabet, MaxTextLen)

\* The bodies the backend can answer with at sample rate sr
PayloadsAt(sr) ==
    {CorruptBytes} \cup {WavBytes(sr, samples) : samples \in SeqsUpTo(SampleVals, MaxFrames)}

Payloads == UNION {PayloadsAt(sr) : sr \in Rates}

\* What the backend can do with one request
ResponsesOver(payloads) ==
    {HttpResponse(200, content) : content \in payloads}
        \cup {HttpResponse(500, CorruptBytes), HttpException}

Responses == ResponsesOver(Payloads)

\* The WAVs given to the enhancer alone, and bytes that are no audio
SignalPayloads ==
    {WavBytes(sr, samples) :
        sr \in SignalRates, samples \in SeqsUpTo(SignalSampleVals, MaxSignalFrames)}
        \cup {CorruptBytes}

\* The settings arguments: None, the empty dict and every dict that gives
\* booleans to some of the four keys
SettingsValues ==
    {None} \cup {Dict(items) :
                   items \in UNION {[S -> BOOLEAN] : S \in SUBSET StageFlags}}

\* ------------------------------------------------------------------- state
VARIABLES
    s_pc,          \* chunker call: "call" before split_text runs, "done" after
    s_text,        \* the text argument of split_text
    s_max_length,  \* the max_length argument of split_text
    s_chunks,      \* the list split_text returned
    s_flushes,     \* the calls of _split_chunk split_text made
    MAX_CHUNK_LENGTH, \* configuration read from the environment
    MAX_RETRIES,
    RETRY_DELAY,
    gen,           \* the running generate_speech call of the client
    enh,           \* the running call of the enhancer
    pc,            \* orchestrator: "idle", "pool", "returned", "raised"
    mode,          \* "Merged" (process_text_to_audio) or "RawList" (..._raw_wavs)
    max_workers,
    backend_sr,    \* the sample rate of the backend's WAVs during the request
    chunks,        \* chunks = self.chunker.split_text(text)
    task,          \* per chunk index: "queued", "running", "synthesized", "done"
    wav_bytes,     \* per chunk index: what generate_speech returned to the task
    enhanced,      \* per chunk index: the payloads enhance_wav_bytes was called on
    future,        \* per chunk index: the value the task returned
    results,       \* the results dict of the as_completed loop
    result_writes, \* the keys of the statements "results[chunk_idx] = ..." run so far
    calls,         \* how often the request has called submit, generate_speech
                   \* and enhance_wav_bytes so far
    output,        \* what the call returned
    error          \* what the call raised

chunker_vars == << s_pc, s_text, s_max_length, s_chunks, s_flushes >>

config_vars == << MAX_CHUNK_LENGTH, MAX_RETRIES, RETRY_DELAY >>

orch_vars == << pc, mode, max_workers, backend_sr, chunks, task, wav_bytes,
                enhanced, future, results, result_writes, calls, output, error >>

NoCalls == [submit |-> 0, generate_speech |-> 0, enhance_wav_bytes |-> 0]

vars == << chunker_vars, config_vars, gen, enh, orch_vars >>

GenIdle == [pc |-> "idle", attempt |-> 0, log |-> << >>, sleeps |-> << >>,
            content |-> None, error_attempts |-> -1]

EnhIdle ==
    [pc |-> "idle", method |-> "", wav_bytes |-> None, sr_target |-> 0,
     given |-> None, settings |-> None, audio_data |-> None, sr_native |-> 0,
     sr |-> 0, loudness |-> "unmeasured", steps |-> << >>, result |-> None]

ChunkerIdle ==
    /\ s_pc = "idle"
    /\ s_text = << >>
    /\ s_max_length = 1
    /\ s_chunks = << >>
    /\ s_flushes = << >>

OrchestratorIdle ==
    /\ pc = "idle"
    /\ mode = "Merged"
    /\ max_workers = 1
    /\ backend_sr = 1000
    /\ chunks = << >>
    /\ task = << >>
    /\ wav_bytes = << >>
    /\ enhanced = << >>
    /\ future = << >>
    /\ results = << >>
    /\ result_writes = << >>
    /\ calls = NoCalls
    /\ output = None
    /\ error = NoError

\* ------------------------------------------------------- chunker alone
InitSplit ==
    /\ s_pc = "call"
    /\ \/ s_text \in Texts /\ s_max_length \in 1..MaxMaxLength
       \/ s_text = ExampleText /\ s_max_length = 20
    /\ s_chunks = << >>
    /\ s_flushes = << >>
    /\ MAX_CHUNK_LENGTH = 1
    /\ MAX_RETRIES = 1
    /\ RETRY_DELAY = 1
    /\ gen = GenIdle
    /\ enh = EnhIdle
    /\ OrchestratorIdle

\* chunks = chunker.split_text(text, max_length)
CallSplitText ==
    /\ s_pc = "call"
    /\ s_chunks' = SplitText(s_text, s_max_length)
    /\ s_flushes' = Flushes(s_text, s_max_length)
    /\ s_pc' = "done"
    /\ UNCHANGED << s_text, s_max_length, config_vars, gen, enh, orch_vars >>

NextSplit == CallSplitText

SpecSplit == InitSplit /\ [][NextSplit]_vars

\* -------------------------------------------------- synthesis client alone
InitSynth ==
    /\ ChunkerIdle
    /\ MAX_CHUNK_LENGTH = 1
    /\ MAX_RETRIES \in 0..MaxRetriesBound
    /\ RETRY_DELAY \in 1..MaxRetryDelay
    /\ gen = GenIdle
    /\ enh = EnhIdle
    /\ OrchestratorIdle

\* tts_client.generate_speech(text, ...) is called
CallGenerateSpeech ==
    /\ gen.pc = "idle"
    /\ gen' = GenStart(MAX_RETRIES)
    /\ UNCHANGED << chunker_vars, config_vars, enh, orch_vars >>

\* one attempt: requests.post and the handling of what comes back
Attempt ==
    /\ gen.pc = "try"
    /\ \E r \in Responses : gen' = GenTry(gen, r)
    /\ UNCHANGED << chunker_vars, config_vars, enh, orch_vars >>

\* the wait after a failed attempt and the step to the next attempt
Backoff ==
    /\ gen.pc = "backoff"
    /\ gen' = GenBackoff(gen, MAX_RETRIES, RETRY_DELAY)
    /\ UNCHANGED << chunker_vars, config_vars, enh, orch_vars >>

\* the loop is over without a return
RaiseExhausted ==
    /\ gen.pc = "exhausted"
    /\ gen' = GenRaise(gen, MAX_RETRIES)
    /\ UNCHANGED << chunker_vars, config_vars, enh, orch_vars >>

NextSynth == CallGenerateSpeech \/ Attempt \/ Backoff \/ RaiseExhausted

SpecSynth == InitSynth /\ [][NextSynth]_vars

\* ----------------------------------------------------------- enhancer alone
InitEnhance ==
    /\ ChunkerIdle
    /\ MAX_CHUNK_LENGTH = 1
    /\ MAX_RETRIES = 1
    /\ RETRY_DELAY = 1
    /\ gen = GenIdle
    /\ enh = EnhIdle
    /\ OrchestratorIdle

\* A call of one of the two methods with some payload, target rate and
\* settings
CallEnhance(method) ==
    /\ enh.pc = "idle"
    /\ \E wav \in SignalPayloads, sr_target \in SignalRates,
          settings \in SettingsValues :
         enh' = EnhStart(method, wav, sr_target, settings)
    /\ UNCHANGED << chunker_vars, config_vars, gen, orch_vars >>

CallEnhanceWavBytes == CallEnhance("enhance_wav_bytes")

CallEnhanceAndLoadSegment == CallEnhance("enhance_and_load_segment")

\* The running call executes its next statement.
EnhanceStatement(stage, after) ==
    /\ enh.pc = stage
    /\ enh' = after
    /\ UNCHANGED << chunker_vars, config_vars, gen, orch_vars >>

LoadAudio == EnhanceStatement("load", EnhLoad(enh))

ResampleStage == EnhanceStatement("resample", EnhResample(enh))

NoiseReductionStage == EnhanceStatement("noise_reduction", EnhNoiseReduction(enh))

DynamicCompressionStage ==
    EnhanceStatement("dynamic_compression", EnhDynamicCompression(enh))

LoudnessNormalizationStage ==
    EnhanceStatement("loudness_normalization", EnhLoudnessNormalization(enh))

ConvertStage == EnhanceStatement("convert", EnhConvert(enh))

NextEnhance ==
    \/ CallEnhanceWavBytes
    \/ CallEnhanceAndLoadSegment
    \/ LoadAudio
    \/ ResampleStage
    \/ NoiseReductionStage
    \/ DynamicCompressionStage
    \/ LoudnessNormalizationStage
    \/ ConvertStage

SpecEnhance == InitEnhance /\ [][NextEnhance]_vars

\* ------------------------------------------------------------ orchestrator
Init ==
    /\ ChunkerIdle
    /\ MAX_CHUNK_LENGTH = RequestChunkLength
    /\ MAX_RETRIES = RequestRetries
    /\ RETRY_DELAY = 1
    /\ gen = GenIdle
    /\ enh = EnhIdle
    /\ OrchestratorIdle

Indices == 0..(Len(chunks) - 1)

\* The tasks a worker thread of the pool is executing
Executing == {i \in Indices : task[i] \in {"running", "synthesized"}}

\* BeginRequest without "if not chunks: raise ValueError(...)": the pool is
\* entered with no chunk at all.
BeginRequestNoCheck(m) ==
    /\ pc = "idle"
    /\ \E text \in RequestTexts, w \in 1..MaxWorkers, sr \in Rates :
         LET cs == SplitText(text, MAX_CHUNK_LENGTH)
         IN  /\ Len(cs) <= MaxChunks
             /\ mode' = m
             /\ max_workers' = w
             /\ backend_sr' = sr
             /\ chunks' = cs
             /\ task' = [i \in 0..(Len(cs) - 1) |-> "queued"]
             /\ wav_bytes' = [i \in 0..(Len(cs) - 1) |-> None]
             /\ enhanced' = [i \in 0..(Len(cs) - 1) |-> << >>]
             /\ future' = [i \in 0..(Len(cs) - 1) |-> None]
             /\ pc' = "pool"
             /\ error' = NoError
             /\ calls' = [calls EXCEPT !.submit = Len(cs)]
    /\ UNCHANGED << chunker_vars, config_vars, gen, enh, results, result_writes, output >>

\* The entry of both methods: the text is split, an empty result raises
\* ValueError, otherwise one task per chunk is submitted to the pool.
BeginRequest(m) ==
    /\ pc = "idle"
    /\ \E text \in RequestTexts, w \in 1..MaxWorkers, sr \in Rates :
         LET cs == SplitText(text, MAX_CHUNK_LENGTH)
         IN  /\ Len(cs) <= MaxChunks
             /\ mode' = m
             /\ max_workers' = w
             /\ backend_sr' = sr
             /\ chunks' = cs
             /\ task' = [i \in 0..(Len(cs) - 1) |-> "queued"]
             /\ wav_bytes' = [i \in 0..(Len(cs) - 1) |-> None]
             /\ enhanced' = [i \in 0..(Len(cs) - 1) |-> << >>]
             /\ future' = [i \in 0..(Len(cs) - 1) |-> None]
             /\ IF cs = << >>
                THEN /\ pc' = "raised"
                     /\ error' = PyError("ValueError", "No valid text chunks found", 0)
                     /\ calls' = calls
                ELSE /\ pc' = "pool"
                     /\ error' = NoError
                     /\ calls' = [calls EXCEPT !.submit = Len(cs)]
    /\ UNCHANGED << chunker_vars, config_vars, gen, enh, results, result_writes, output >>

ProcessTextToAudio == BeginRequest("Merged")

ProcessTextToRawWavs == BeginRequest("RawList")

\* StartTask of a pool that starts a thread per submitted task, whatever
\* max_workers is.
StartTaskUnbounded(i) ==
    /\ pc = "pool"
    /\ task[i] = "queued"
    /\ \A j \in Indices : task[j] = "queued" => i <= j
    /\ task' = [task EXCEPT ![i] = "running"]
    /\ UNCHANGED << chunker_vars, config_vars, gen, enh, pc, mode, max_workers,
                    backend_sr, chunks, wav_bytes, enhanced, future, results,
                    result_writes, calls, output, error >>

\* A free worker of the ThreadPoolExecutor takes the oldest queued task.
StartTask(i) ==
    /\ pc = "pool"
    /\ task[i] = "queued"
    /\ \A j \in Indices : task[j] = "queued" => i <= j
    /\ Cardinality(Executing) < max_workers
    /\ task' = [task EXCEPT ![i] = "running"]
    /\ UNCHANGED << chunker_vars, config_vars, gen, enh, pc, mode, max_workers,
                    backend_sr, chunks, wav_bytes, enhanced, future, results,
                    result_writes, calls, output, error >>

\* The answers the backend may give to the requests of one call of
\* generate_speech: failures up to the first success, MAX_RETRIES at most.
BackendAnswers ==
    LET failures == {HttpResponse(500, CorruptBytes), HttpException}
        runs == SeqsUpTo(failures, MAX_RETRIES)
    IN  {f \in runs : Len(f) = MAX_RETRIES}
            \cup {Append(f, HttpResponse(200, content)) :
                    f \in {r \in runs : Len(r) < MAX_RETRIES},
                    content \in PayloadsAt(backend_sr)}

\* ProcessChunkSynthesize without the "except Exception" of process_chunk:
\* a task whose synthesis raised gives no (chunk_idx, None) pair, and its
\* index gets no entry in results.
ProcessChunkSynthesizeUncaught(i) ==
    /\ pc = "pool"
    /\ mode = "Merged"
    /\ task[i] = "running"
    /\ \E resps \in BackendAnswers :
         LET g == RunGenerateSpeech(GenStart(MAX_RETRIES), resps, MAX_RETRIES, RETRY_DELAY)
         IN  IF g.pc = "returned"
             THEN /\ wav_bytes' = [wav_bytes EXCEPT ![i] = g.content]
                  /\ task' = [task EXCEPT ![i] = "synthesized"]
             ELSE /\ wav_bytes' = wav_bytes
                  /\ task' = [task EXCEPT ![i] = "collected"]
    /\ calls' = [calls EXCEPT !.generate_speech = @ + 1]
    /\ UNCHANGED << chunker_vars, config_vars, gen, enh, pc, mode, max_workers,
                    backend_sr, chunks, enhanced, future, results, result_writes,
                    output, error >>

\* process_chunk up to the return of generate_speech: the payload is kept for
\* the enhancer, an exception makes the task return (chunk_idx, None).
ProcessChunkSynthesize(i) ==
    /\ pc = "pool"
    /\ mode = "Merged"
    /\ task[i] = "running"
    /\ \E resps \in BackendAnswers :
         LET g == RunGenerateSpeech(GenStart(MAX_RETRIES), resps, MAX_RETRIES, RETRY_DELAY)
         IN  IF g.pc = "returned"
             THEN /\ wav_bytes' = [wav_bytes EXCEPT ![i] = g.content]
                  /\ task' = [task EXCEPT ![i] = "synthesized"]
                  /\ future' = future
             ELSE /\ wav_bytes' = wav_bytes
                  /\ task' = [task EXCEPT ![i] = "done"]
                  /\ future' = [future EXCEPT ![i] = [chunk_idx |-> i, value |-> None]]
    /\ calls' = [calls EXCEPT !.generate_speech = @ + 1]
    /\ UNCHANGED << chunker_vars, config_vars, gen, enh, pc, mode, max_workers,
                    backend_sr, chunks, enhanced, results, result_writes,
                    output, error >>

\* ChunkResult of a task that reads the index from a variable of the
\* submitting loop when it runs, after the loop has ended: every task then
\* reports the last index.
ChunkResultLateBinding(i, segment) ==
    [chunk_idx |-> Len(chunks) - 1, value |-> IF Truthy(segment) THEN segment ELSE None]

\* The value process_chunk returns for a segment the enhancer gave back
ChunkResult(i, segment) ==
    [chunk_idx |-> i, value |-> IF Truthy(segment) THEN segment ELSE None]

\* process_chunk from enhance_wav_bytes to its return.
ProcessChunkEnhance(i) ==
    /\ pc = "pool"
    /\ mode = "Merged"
    /\ task[i] = "synthesized"
    /\ enhanced' = [enhanced EXCEPT ![i] = Append(@, wav_bytes[i])]
    /\ future' = [future EXCEPT ![i] = ChunkResult(i, EnhanceWavBytes(wav_bytes[i]))]
    /\ task' = [task EXCEPT ![i] = "done"]
    /\ calls' = [calls EXCEPT !.enhance_wav_bytes = @ + 1]
    /\ UNCHANGED << chunker_vars, config_vars, gen, enh, pc, mode, max_workers,
                    backend_sr, chunks, wav_bytes, results, result_writes,
                    output, error >>

\* GenerateWavForChunk that passes the payload on to the enhancer as
\* process_chunk does.
GenerateWavForChunkEnhancing(i) ==
    /\ pc = "pool"
    /\ mode = "RawList"
    /\ task[i] = "running"
    /\ \E resps \in BackendAnswers :
         LET g == RunGenerateSpeech(GenStart(MAX_RETRIES), resps, MAX_RETRIES, RETRY_DELAY)
         IN  /\ wav_bytes' = [wav_bytes EXCEPT ![i] = g.content]
             /\ future' = [future EXCEPT ![i] = [chunk_idx |-> i, value |-> g.content]]
             /\ enhanced' = [enhanced EXCEPT ![i] = IF g.pc = "returned"
                                                    THEN Append(@, g.content) ELSE @]
    /\ task' = [task EXCEPT ![i] = "done"]
    /\ calls' = [calls EXCEPT !.generate_speech = @ + 1]
    /\ UNCHANGED << chunker_vars, config_vars, gen, enh, pc, mode, max_workers,
                    backend_sr, chunks, results, result_writes,
                    output, error >>

\* generate_wav_for_chunk: the raw bytes of generate_speech are returned as
\* they are, an exception makes the task return (chunk_idx, None).
GenerateWavForChunk(i) ==
    /\ pc = "pool"
    /\ mode = "RawList"
    /\ task[i] = "running"
    /\ \E resps \in BackendAnswers :
         LET g == RunGenerateSpeech(GenStart(MAX_RETRIES), resps, MAX_RETRIES, RETRY_DELAY)
         IN  /\ wav_bytes' = [wav_bytes EXCEPT ![i] = g.content]
             /\ future' = [future EXCEPT ![i] = [chunk_idx |-> i, value |-> g.content]]
    /\ task' = [task EXCEPT ![i] = "done"]
    /\ calls' = [calls EXCEPT !.generate_speech = @ + 1]
    /\ UNCHANGED << chunker_vars, config_vars, gen, enh, pc, mode, max_workers,
                    backend_sr, chunks, enhanced, results, result_writes,
                    output, error >>

\* CollectResult that files a value under its arrival number, not under the
\* index the future carries.
CollectResultByArrival(i) ==
    /\ pc = "pool"
    /\ task[i] = "done"
    /\ results' = DictSet(results, Len(results), future[i].value)
    /\ result_writes' = Append(result_writes, Len(results))
    /\ task' = [task EXCEPT ![i] = "collected"]
    /\ UNCHANGED << chunker_vars, config_vars, gen, enh, pc, mode, max_workers,
                    backend_sr, chunks, wav_bytes, enhanced, future, calls,
                    output, error >>

\* One round of "for future in as_completed(futures)": some finished future
\* not yet seen is taken and its value stored under the index it carries.
CollectResult(i) ==
    /\ pc = "pool"
    /\ task[i] = "done"
    /\ results' = DictSet(results, future[i].chunk_idx, future[i].value)
    /\ result_writes' = Append(result_writes, future[i].chunk_idx)
    /\ task' = [task EXCEPT ![i] = "collected"]
    /\ UNCHANGED << chunker_vars, config_vars, gen, enh, pc, mode, max_workers,
                    backend_sr, chunks, wav_bytes, enhanced, future, calls,
                    output, error >>

\* FanIn that does not wait for the pool: it also runs as soon as one
\* collected result is a failure, whatever the other tasks are doing.
FanInFailFast(outcome) ==
    /\ pc = "pool"
    /\ \/ \A i \in Indices : task[i] = "collected"
       \/ \E i \in Indices : task[i] = "collected" /\ future[i].value = None
    /\ output' = outcome.output
    /\ error' = outcome.error
    /\ pc' = IF outcome.error = NoError THEN "returned" ELSE "raised"
    /\ UNCHANGED << chunker_vars, config_vars, gen, enh, mode, max_workers,
                    backend_sr, chunks, task, wav_bytes, enhanced, future, results,
                    result_writes, calls >>

\* The fan-in of both methods, once as_completed has yielded every future and
\* the pool is shut down.
FanIn(outcome) ==
    /\ pc = "pool"
    /\ \A i \in Indices : task[i] = "collected"
    /\ output' = outcome.output
    /\ error' = outcome.error
    /\ pc' = IF outcome.error = NoError THEN "returned" ELSE "raised"
    /\ UNCHANGED << chunker_vars, config_vars, gen, enh, mode, max_workers,
                    backend_sr, chunks, task, wav_bytes, enhanced, future, results,
                    result_writes, calls >>

MergeInOrder ==
    /\ mode = "Merged"
    /\ FanIn(MergeSegments(results, Len(chunks), 0, EmptySegment, 0))

CollectInOrder ==
    /\ mode = "RawList"
    /\ FanIn(CollectWavs(results, Len(chunks), 0, << >>))

Next ==
    \/ ProcessTextToAudio
    \/ ProcessTextToRawWavs
    \/ \E i \in Indices : StartTask(i)
    \/ \E i \in Indices : ProcessChunkSynthesize(i)
    \/ \E i \in Indices : ProcessChunkEnhance(i)
    \/ \E i \in Indices : GenerateWavForChunk(i)
    \/ \E i \in Indices : CollectResult(i)
    \/ MergeInOrder
    \/ CollectInOrder

Spec == Init /\ [][Next]_vars

\* ================================================================== claims
Finished == pc \in {"returned", "raised"} /\ chunks # << >>

\* The task of chunk i ended in failure: the retries of its synthesis were
\* exhausted, or (Merged mode) the enhancer failed on its payload.
TaskFailed(i) ==
    \/ wav_bytes[i] = None
    \/ mode = "Merged" /\ EnhanceWavBytes(wav_bytes[i]) = None

\* C1: all-or-nothing fan-in.  In both modes, when the task of at least one
\* chunk ended in failure the call raises and returns nothing, and a call
\* that returned has no failed chunk, however many chunks succeeded.
C1_AllOrNothing ==
    /\ (Finished /\ \E i \in Indices : TaskFailed(i))
          => (pc = "raised" /\ output = None /\ error # NoError)
    /\ pc = "returned" => \A i \in Indices : ~TaskFailed(i) /\ future[i].value # None

C1_Witness ==
    /\ pc = "raised"
    /\ Len(chunks) = MaxChunks
    /\ \E i \in Indices :
          /\ wav_bytes[i] = None
          /\ \A j \in Indices \ {i} : future[j].value # None

\* What the task of chunk i hands to the fan-in, from the payload the
\* backend gave for the chunk alone.
ValueByIndex(i) ==
    IF wav_bytes[i] = None THEN None
    ELSE IF mode = "RawList" THEN wav_bytes[i]
    ELSE IF Truthy(EnhanceWavBytes(wav_bytes[i])) THEN EnhanceWavBytes(wav_bytes[i])
    ELSE None

RECURSIVE DataByIndex(_)
DataByIndex(i) ==
    IF i >= Len(chunks) THEN << >> ELSE ValueByIndex(i).data \o DataByIndex(i + 1)

OutputByIndex ==
    IF \E i \in Indices : ValueByIndex(i) = None THEN None
    ELSE IF mode = "RawList"
    THEN [kind |-> "list", items |-> [k \in 1..Len(chunks) |-> ValueByIndex(k - 1)]]
    ELSE AudioSegment(DataByIndex(0), backend_sr)

ErrorByIndex ==
    IF \A i \in Indices : ValueByIndex(i) # None THEN NoError
    ELSE LET first == CHOOSE i \in Indices :
                         /\ ValueByIndex(i) = None
                         /\ \A j \in Indices : ValueByIndex(j) = None => i <= j
         IN  IF mode = "RawList"
             THEN PyError("Exception", "Chunk %d failed to process, aborting.", first + 1)
             ELSE PyError("Exception", "Chunks process failed", 0)

\* The order in which the futures were taken by the as_completed loop
ArrivalOrder == [k \in 1..Len(results) |-> results[k].key]

\* C2: the outcome does not depend on the completion order.  Whatever the
\* interleaving of the tasks and the order in which they complete, the
\* outcome of a finished call (merged track, raw list or error) is the one
\* determined by the chunk indices and the payload the backend gave for each
\* chunk.
C2_OrderIndependent ==
    Finished => (output = OutputByIndex /\ error = ErrorByIndex)

\* a call returned although its tasks completed in exactly reversed order
C2_Witness ==
    /\ pc = "returned"
    /\ Len(chunks) = MaxChunks
    /\ ArrivalOrder = [k \in 1..Len(chunks) |-> Len(chunks) - k]
    /\ \E i, j \in Indices : wav_bytes[i] # wav_bytes[j]

\* The data of the segments the tasks of chunks i, i + 1, ... returned
RECURSIVE SegmentsFrom(_)
SegmentsFrom(i) ==
    IF i >= Len(chunks) THEN << >> ELSE future[i].value.data \o SegmentsFrom(i + 1)

\* C3: in Merged mode, when every chunk task succeeded, the call returns the
\* track seg_0 + seg_1 + ... + seg_(N-1), seg_i being the enhanced signal of
\* the payload of chunk i: every segment once, in index order, nothing between.
C3_MergedIsConcatenation ==
    (Finished /\ mode = "Merged" /\ \A i \in Indices : future[i].value # None)
        => /\ pc = "returned"
           /\ \A i \in Indices : future[i].value = EnhanceWavBytes(wav_bytes[i])
           /\ output.kind = "AudioSegment"
           /\ output.data = SegmentsFrom(0)
           /\ output.frame_rate = backend_sr

C3_Witness ==
    /\ pc = "returned"
    /\ mode = "Merged"
    /\ Len(chunks) = MaxChunks
    /\ ArrivalOrder # [k \in 1..Len(chunks) |-> k - 1]
    /\ \E i, j \in Indices : future[i].value.data # future[j].value.data

\* C4: in RawList mode, when every chunk task succeeded, the call returns a
\* list of exactly N elements whose i-th element is the payload the backend
\* returned for chunk i, unchanged.
C4_RawListIsPayloads ==
    (Finished /\ mode = "RawList" /\ \A i \in Indices : wav_bytes[i] # None)
        => /\ pc = "returned"
           /\ output.kind = "list"
           /\ Len(output.items) = Len(chunks)
           /\ \A i \in Indices : output.items[i + 1] = wav_bytes[i]

C4_Witness ==
    /\ pc = "returned"
    /\ mode = "RawList"
    /\ Len(chunks) = MaxChunks
    /\ ArrivalOrder # [k \in 1..Len(chunks) |-> k - 1]
    /\ \E i, j \in Indices : wav_bytes[i] # wav_bytes[j]
    /\ \E i \in Indices : ~wav_bytes[i].decodable

\* The backend answered the request with success status
Succeeded(r) == ~r.raised /\ r.status = 200

\* C5: one call of generate_speech sends at most max_retries requests; it
\* returns the payload of the first request answered with success, and no
\* request follows a success.
C5_AtMostMaxRetries ==
    /\ Len(gen.log) <= MAX_RETRIES
    /\ \A k \in 1..(Len(gen.log) - 1) : ~Succeeded(gen.log[k])
    /\ gen.pc = "returned"
          => /\ gen.log # << >>
             /\ Succeeded(gen.log[Len(gen.log)])
             /\ gen.content = gen.log[Len(gen.log)].content
    /\ (gen.log # << >> /\ Succeeded(gen.log[Len(gen.log)])) => gen.pc = "returned"

C5_Witness ==
    /\ gen.pc = "returned"
    /\ Len(gen.log) >= 2
    /\ Len(gen.log) < MAX_RETRIES

\* C6: generate_speech raises its terminal error if and only if all
\* max_retries attempts failed; the error comes after the last attempt only
\* and carries the attempt count max_retries.
C6_RaisesIffAllFailed ==
    LET all_failed == /\ gen.pc # "idle"
                      /\ Len(gen.log) = MAX_RETRIES
                      /\ \A k \in 1..Len(gen.log) : ~Succeeded(gen.log[k])
    IN  /\ gen.pc = "raised" => (all_failed /\ gen.error_attempts = MAX_RETRIES)
        /\ gen.pc = "returned" => ~all_failed
        /\ all_failed => gen.pc \in {"backoff", "exhausted", "raised"}
        /\ gen.pc = "exhausted" => all_failed

C6_Witness ==
    /\ gen.pc = "raised"
    /\ MAX_RETRIES >= 2
    /\ \E k \in 1..Len(gen.log) : gen.log[k].raised
    /\ \E k \in 1..Len(gen.log) : ~gen.log[k].raised

C8_ExceptionIsFailedAttempt ==
    \A k \in 1..Len(gen.log) :
        (gen.log[k].raised /\ k < MAX_RETRIES)
            => \/ Len(gen.log) > k
               \/ (gen.pc = "backoff" /\ gen.attempt = k - 1)
               \/ (gen.pc = "try" /\ gen.attempt = k)

C8_Witness ==
    /\ gen.pc = "returned"
    /\ Len(gen.log) >= 3
    /\ gen.log[1].raised
    /\ gen.log[2].raised

\* s is one run of characters none of which is whitespace
IsUnbrokenRun(s) == \A k \in 1..Len(s) : ~IsSpace(s[k])

\* C9: every chunk split_text returns is at most max_length long, except
\* possibly a chunk that is one unbroken run of non-whitespace characters
\* longer than max_length.
C9_ChunkLengthBound ==
    s_pc = "done"
        => \A k \in 1..Len(s_chunks) :
              \/ Len(s_chunks[k]) <= s_max_length
              \/ IsUnbrokenRun(s_chunks[k])

\* a text holding whitespace and a run longer than max_length was cut
C9_Witness ==
    /\ s_pc = "done"
    /\ Len(s_chunks) >= 3
    /\ \E k \in 1..Len(s_text) : s_text[k] = " "
    /\ \E k \in 1..(Len(s_text) - s_max_length) :
          IsUnbrokenRun(SubSeq(s_text, k, k + s_max_length))
    /\ \E k \in 1..Len(s_chunks) : Len(s_chunks[k]) = s_max_length

NonSpace(s) == SelectSeq(s, LAMBDA c : ~IsSpace(c))

RECURSIVE Concat(_)
Concat(ss) == IF ss = << >> THEN << >> ELSE Head(ss) \o Concat(Tail(ss))

\* C10: split_text loses, duplicates and reorders nothing: the non-whitespace
\* characters of the chunks, joined in order, are the non-whitespace
\* characters of the text.
C10_NoLossNoDuplication ==
    s_pc = "done" => NonSpace(Concat(s_chunks)) = NonSpace(s_text)

C10_Witness ==
    /\ s_pc = "done"
    /\ Len(s_chunks) >= 2
    /\ \E k \in 1..Len(s_text) : s_text[k] = "\n"
    /\ \E k \in 1..Len(s_text) : s_text[k] = " "
    /\ \E k \in 1..Len(s_chunks) : Len(s_chunks[k]) >= 2
    /\ \E j, k \in 1..Len(s_text) : ~IsSpace(s_text[j]) /\ ~IsSpace(s_text[k]) /\ s_text[j] # s_text[k]

\* The separator occurrences lying inside the window text[start:end]
\* strictly after its start: table entry k matches at position pos.
Occurrences(text, start, end) ==
    {o \in [k : 1..Len(separators), pos : (start + 1)..(end - 1)] :
        /\ o.pos + Len(separators[o.k].sep) <= end
        /\ MatchAt(text, separators[o.k].sep, o.pos)}

\* occurrence a is of higher priority than b, or of equal priority and not
\* left of it
AtLeastAsGood(a, b) ==
    \/ separators[a.k].priority > separators[b.k].priority
    \/ /\ separators[a.k].priority = separators[b.k].priority
       /\ a.pos >= b.pos

\* C11: in every window of max_length characters that _split_chunk cuts,
\* the cut is a separator occurrence of the window lying strictly after the
\* window start whenever there is one, and then it is one of the highest
\* priority and, among those of that priority, the rightmost; the piece cut
\* off ends with the cut.  With max_length = 20 the text
\* "Hello world. This is a test sentence." has the first chunk "Hello world.".
C11_CutPointSelection ==
    s_pc = "done" =>
        /\ \A f \in 1..Len(s_flushes) :
              \A j \in 1..Len(s_flushes[f].iters) :
                 LET text == s_flushes[f].text
                     it == s_flushes[f].iters[j]
                     occ == Occurrences(text, it.start, it.start + s_max_length)
                 IN  it.branch # "rest" =>
                        /\ (it.branch = "separator") <=> (occ # {})
                        /\ occ # {} =>
                              \E o \in occ :
                                 /\ o.pos = it.best_pos
                                 /\ \A q \in occ : AtLeastAsGood(o, q)
                        /\ it.chunk = Strip(Slice(text, it.start, it.best_pos + 1))
        /\ (s_text = ExampleText /\ s_max_length = 20) =>
              /\ s_chunks # << >>
              /\ s_chunks[1] = SubSeq(ExampleText, 1, 12)

\* a window held a sentence terminator and, right of it, a plain space, and
\* was cut at the terminator
C11_Witness ==
    /\ s_pc = "done"
    /\ s_text \in Texts
    /\ \E f \in 1..Len(s_flushes) :
          \E j \in 1..Len(s_flushes[f].iters) :
             LET text == s_flushes[f].text
                 it == s_flushes[f].iters[j]
                 occ == Occurrences(text, it.start, it.start + s_max_length)
             IN  /\ it.branch = "separator"
                 /\ \E o, q \in occ :
                       /\ separators[o.k].priority = 1
                       /\ separators[q.k].priority = 0
                       /\ o.pos = it.best_pos
                       /\ q.pos > o.pos + 1

\* s is empty or holds nothing but whitespace and line breaks
IsBlank(s) == \A k \in 1..Len(s) : IsSpace(s[k])

\* C12: for the empty text and for every text of whitespace and line breaks
\* only, whatever max_length is, split_text comes back (it does not raise)
\* with the empty list, and without a call of _split_chunk.
C12_BlankGivesNoChunks ==
    (s_pc = "done" /\ IsBlank(s_text)) => (s_chunks = << >> /\ s_flushes = << >>)

\* a text of blanks and line breaks was split
C12_Witness ==
    /\ s_pc = "done"
    /\ IsBlank(s_text)
    /\ \E j, k \in 1..Len(s_text) : s_text[j] = " " /\ s_text[k] = "\n"
    /\ s_max_length = 1
    /\ s_chunks = << >>

\* C13: a request whose text gives no chunk has, from its first step on,
\* raised ValueError("No valid text chunks found"): it never enters the pool,
\* returns nothing, and has called neither submit nor generate_speech nor
\* enhance_wav_bytes; so in both methods.
C13_FailFastOnNoChunks ==
    (pc # "idle" /\ chunks = << >>) =>
        /\ pc = "raised"
        /\ error = PyError("ValueError", "No valid text chunks found", 0)
        /\ output = None
        /\ calls = NoCalls
        /\ DOMAIN task = {}
        /\ results = << >>

\* process_text_to_raw_wavs was called with a text that gives no chunk
C13_Witness ==
    /\ pc = "raised"
    /\ mode = "RawList"
    /\ chunks = << >>
    /\ error.kind = "ValueError"
    /\ calls.generate_speech = 0

\* C14: when a request that entered the pool has returned or raised, every
\* task it submitted has run to its end, also when another task had failed
\* before: generate_speech was called once for every chunk, every future
\* carries the value its task returned and every one of them was collected.
\* The fan-in runs after that only.
C14_NoCancellationFullBarrier ==
    Finished =>
        /\ calls.submit = Len(chunks)
        /\ calls.generate_speech = Len(chunks)
        /\ \A i \in Indices :
              /\ task[i] = "collected"
              /\ future[i] # None
              /\ future[i].chunk_idx = i
        /\ Len(result_writes) = Len(chunks)

\* the first task to finish had failed, the tasks after it still ran and
\* succeeded, and the request raised at the end
C14_Witness ==
    /\ pc = "raised"
    /\ Len(chunks) = MaxChunks
    /\ result_writes[1] = 0
    /\ wav_bytes[0] = None
    /\ \A i \in Indices \ {0} : wav_bytes[i] # None /\ future[i].value # None
    /\ calls.generate_speech = Len(chunks)

\* C15: at every moment of a request at most max_workers of its tasks are
\* being executed by the pool, so at most max_workers calls of
\* generate_speech are in flight; with max_workers = 1, the default of both
\* methods, at most one.
C15_BoundedWorkerPool ==
    /\ Cardinality(Executing) <= max_workers
    /\ max_workers = 1 => \A i, j \in Executing : i = j

\* both workers of a pool of two are busy while a third task waits
C15_Witness ==
    /\ pc = "pool"
    /\ max_workers = 2
    /\ Cardinality(Executing) = 2
    /\ \E i \in Indices : task[i] = "queued"
    /\ \E i \in Indices : task[i] = "running"

\* how often "results[chunk_idx] = ..." ran with the key i
WritesOf(i) == Cardinality({k \in 1..Len(result_writes) : result_writes[k] = i})

\* C16: the results dict is written once for each chunk index: never for an
\* index whose task has not been collected, once for a collected one, under
\* no other key, and the entry of index i holds the value the task of chunk i
\* returned; the fan-in has produced its outcome only when every index has
\* its entry.
C16_ResultsWrittenOncePerIndex ==
    /\ \A k \in 1..Len(result_writes) : result_writes[k] \in Indices
    /\ \A i \in Indices :
          IF task[i] = "collected"
          THEN /\ WritesOf(i) = 1
               /\ DictHas(results, i)
               /\ DictGet(results, i) = future[i].value
          ELSE /\ WritesOf(i) = 0
               /\ ~DictHas(results, i)
    /\ (chunks # << >> /\ (output # None \/ error # NoError)) =>
          \A i \in Indices : WritesOf(i) = 1

\* a merged request of MaxChunks chunks whose results arrived out of index
\* order, each filed once under its own index
C16_Witness ==
    /\ pc = "returned"
    /\ mode = "Merged"
    /\ Len(chunks) = MaxChunks
    /\ Len(result_writes) = MaxChunks
    /\ result_writes[1] # 0
    /\ \A i \in Indices : WritesOf(i) = 1

\* the lowest chunk index whose collected result is a failure (None)
FirstFailedIndex ==
    CHOOSE i \in Indices :
        /\ DictGet(results, i) = None
        /\ \A j \in Indices : j < i => DictGet(results, j) # None

\* why the task of chunk i returned None: the retries of generate_speech
\* were exhausted, or the enhancer gave no usable segment
RootCause(i) == IF wav_bytes[i] = None THEN "synthesis" ELSE "enhancement"

\* C17: when a request raises because a chunk failed, the exception names
\* the first (lowest-index) failing chunk, by its number i + 1, and carries
\* the root cause of that chunk's failure; so in both methods.
C17_ErrorNamesFirstFailure ==
    (Finished /\ pc = "raised") =>
        /\ error.chunk = FirstFailedIndex + 1
        /\ "cause" \in DOMAIN error
        /\ error.cause = RootCause(FirstFailedIndex)

\* audio_data and sr of the running enhancer call before its k-th statement
AudioBefore(k) ==
    IF k = 1 THEN Audio(enh.wav_bytes.samples, 2) ELSE enh.steps[k - 1].audio_data

RateBefore(k) == IF k = 1 THEN enh.wav_bytes.sr ELSE enh.steps[k - 1].sr

IsSilent(audio) == \A k \in 1..Len(audio.samples) : audio.samples[k] = 0

\* C18: when the loudness meter has measured -inf, which it does for an
\* all-zero signal only, the loudness stage hands back audio_data and sr as
\* it got them (no gain is applied), the call does not end in an exception,
\* and it returns the AudioSegment of that silent signal.
C18_SilenceSkipsNormalization ==
    enh.loudness = "-inf" =>
        /\ enh.pc # "returned" \/ enh.result # None
        /\ \A k \in 1..Len(enh.steps) :
              enh.steps[k].stage = "loudness_normalization" =>
                 /\ IsSilent(AudioBefore(k))
                 /\ enh.steps[k].audio_data = AudioBefore(k)
                 /\ enh.steps[k].sr = RateBefore(k)
        /\ enh.pc = "returned" =>
              /\ enh.result = ToAudioSegment(enh.audio_data, enh.sr)
              /\ \A k \in 1..Len(enh.result.data) : enh.result.data[k] = 0

\* a silent WAV long enough for the meter went through the loudness stage
\* and came back as a segment
C18_Witness ==
    /\ enh.pc = "returned"
    /\ enh.loudness = "-inf"
    /\ enh.result # None
    /\ Len(enh.result.data) >= 2
    /\ \E k \in 1..Len(enh.steps) :
          enh.steps[k].stage = "loudness_normalization" /\ enh.steps[k].applied

\* the place of a stage in the order resample, noise reduction, dynamic
\* range compression, loudness normalization, 16-bit conversion
StageRank(stage) ==
    CASE stage = "resample" -> 1
      [] stage = "noise_reduction" -> 2
      [] stage = "dynamic_compression" -> 3
      [] stage = "loudness_normalization" -> 4
      [] stage = "convert" -> 5

\* C19: whatever the settings are, the stages a call applies come in the
\* order resample, noise reduction, dynamic range compression, loudness
\* normalization, 16-bit conversion: no stage is applied after a later one,
\* none is applied twice, and a call that returns a segment has applied the
\* conversion last.
C19_FixedStageOrder ==
    /\ \A j, k \in 1..Len(enh.steps) :
          (j < k /\ enh.steps[j].applied /\ enh.steps[k].applied) =>
             StageRank(enh.steps[j].stage) < StageRank(enh.steps[k].stage)
    /\ (enh.pc = "returned" /\ enh.result # None) =>
          /\ enh.steps # << >>
          /\ enh.steps[Len(enh.steps)].stage = "convert"
          /\ enh.steps[Len(enh.steps)].applied

\* a call with every flag set applied all five stages
C19_Witness ==
    /\ enh.pc = "returned"
    /\ enh.result # None
    /\ Len(enh.steps) = 5
    /\ \A k \in 1..5 : enh.steps[k].applied
    /\ enh.loudness = "finite"

\* the flag is a key of the settings the caller gave, with the value True
FlagOn(flag) ==
    /\ enh.given.kind = "dict"
    /\ flag \in DOMAIN enh.given.items
    /\ enh.given.items[flag]

\* C20: a stage whose flag is not present and true in the settings given
\* (no settings, the empty dict, the key absent or False) is not applied
\* and leaves audio_data and sr as they were; the resample stage does so
\* too when the native rate is the target rate; and a call with no flag on
\* returns the 16-bit conversion of the decoded samples at the native rate.
C20_OptInPerFlag ==
    /\ \A k \in 1..Len(enh.steps) :
          LET step == enh.steps[k]
          IN  (/\ step.stage \in StageFlags
               /\ \/ ~FlagOn(step.stage)
                  \/ step.stage = "resample" /\ enh.sr_native = enh.sr_target)
                 => /\ ~step.applied
                    /\ step.audio_data = AudioBefore(k)
                    /\ step.sr = RateBefore(k)
    /\ (enh.pc = "returned" /\ \A f \in StageFlags : ~FlagOn(f)) =>
          /\ enh.result = EnhanceWavBytes(enh.wav_bytes)
          /\ enh.wav_bytes.decodable =>
                /\ enh.result = NumpyToAudioSegment(enh.wav_bytes.samples, enh.wav_bytes.sr)
                /\ enh.result.frame_rate = enh.wav_bytes.sr

\* the settings name the compression alone: it was applied to a signal that
\* is not silent, the three stages whose keys are absent were not
C20_Witness ==
    /\ enh.pc = "returned"
    /\ enh.given.kind = "dict"
    /\ DOMAIN enh.given.items = {"dynamic_compression"}
    /\ FlagOn("dynamic_compression")
    /\ enh.sr_native # enh.sr_target
    /\ enh.result # None
    /\ ~IsSilent(Audio(enh.wav_bytes.samples, 2))
    /\ \A k \in 1..Len(enh.steps) :
          enh.steps[k].applied <=> enh.steps[k].stage \in {"dynamic_compression", "convert"}

Abs(n) == IF n >= 0 THEN n ELSE -n

\* C21: the dynamic range compression gives, for audio whose samples all lie
\* in [-1, 1], as many samples as it got, each of a magnitude strictly below
\* 0.9 and of the sign of its input; so the 16-bit value made of it stays
\* below 0.9 * 32767 in magnitude when no later stage touches it.
C21_CompressionBelowNineTenths ==
    \A k \in 1..Len(enh.steps) :
        LET in == AudioBefore(k)
            out == enh.steps[k].audio_data
        IN  (/\ enh.steps[k].stage = "dynamic_compression"
             /\ enh.steps[k].applied
             /\ \A j \in 1..Len(in.samples) : Abs(in.samples[j]) <= in.den)
               => /\ Len(out.samples) = Len(in.samples)
                  /\ \A j \in 1..Len(out.samples) :
                        /\ 10 * Abs(out.samples[j]) < 9 * out.den
                        /\ (out.samples[j] > 0) <=> (in.samples[j] > 0)
                        /\ (out.samples[j] < 0) <=> (in.samples[j] < 0)

\* a signal holding the full-scale sample 1.0 and a negative sample was
\* compressed and returned
C21_Witness ==
    /\ enh.pc = "returned"
    /\ enh.result # None
    /\ \E k \in 1..Len(enh.steps) :
          /\ enh.steps[k].stage = "dynamic_compression"
          /\ enh.steps[k].applied
          /\ \E i, j \in 1..Len(AudioBefore(k).samples) :
                /\ AudioBefore(k).samples[i] = AudioBefore(k).den
                /\ AudioBefore(k).samples[j] < 0
                /\ enh.steps[k].audio_data.samples[j] < 0

\* C22: the enhancer is called for chunk i at most once, only when the
\* generate_speech call of chunk i has returned a payload, and on that
\* payload; a Merged task whose synthesis returned has called it by the time
\* it ends, a task whose synthesis failed never does, and in RawList mode it
\* is called for no chunk.
C22_EnhanceAfterOwnSynthesis ==
    /\ \A i \in Indices :
          /\ Len(enhanced[i]) <= 1
          /\ enhanced[i] # << >> =>
                /\ mode = "Merged"
                /\ wav_bytes[i] # None
                /\ enhanced[i] = << wav_bytes[i] >>
                /\ task[i] \in {"done", "collected"}
          /\ (/\ mode = "Merged"
              /\ wav_bytes[i] # None
              /\ task[i] \in {"done", "collected"}) => enhanced[i] # << >>
    /\ calls.enhance_wav_bytes = Cardinality({i \in Indices : enhanced[i] # << >>})
    /\ mode = "RawList" => calls.enhance_wav_bytes = 0

\* a Merged request ended in which the synthesis of one chunk failed, so
\* that it was not enhanced, and the payload of another was enhanced
C22_Witness ==
    /\ Finished
    /\ mode = "Merged"
    /\ \E i, j \in Indices :
          /\ wav_bytes[i] = None
          /\ enhanced[i] = << >>
          /\ wav_bytes[j] # None
          /\ enhanced[j] = << wav_bytes[j] >>
    /\ calls.enhance_wav_bytes = Len(chunks) - 1

\* the buffers split_text flushed, in order
Buffers == [k \in 1..Len(s_flushes) |-> s_flushes[k].text]

\* the lines a buffer was joined from
LinesOf(buffer) == SplitLines(buffer, << >>)

\* the trimmed lines of the text that are not blank, in their order
NonBlankLines(text) ==
    LET lines == SplitLines(Strip(text), << >>)
    IN  SelectSeq([k \in 1..Len(lines) |-> Strip(lines[k])], LAMBDA l : l # << >>)

\* what the flush step makes of the buffers from the k-th on
RECURSIVE FlushedFrom(_)
FlushedFrom(k) ==
    IF k > Len(s_flushes) THEN << >>
    ELSE SplitChunk(Buffers[k], s_max_length) \o FlushedFrom(k + 1)

\* C23: the buffers split_text flushes are the trimmed non-blank lines of
\* the text in their order, joined by single line feeds, grouped greedily:
\* a line was joined to the buffer before it exactly when the buffer, a
\* line feed and the line together were at most max_length long (so every
\* buffer of several lines fits, and a buffer ends where the next line
\* would not fit any more); the chunks are what the flush step makes of
\* these buffers one after the other.
C23_GreedyLineAccumulation ==
    s_pc = "done" =>
        /\ Concat([k \in 1..Len(Buffers) |-> LinesOf(Buffers[k])]) = NonBlankLines(s_text)
        /\ \A k \in 1..Len(Buffers) :
              Len(LinesOf(Buffers[k])) >= 2 => Len(Buffers[k]) <= s_max_length
        /\ \A k \in 1..(Len(Buffers) - 1) :
              Len(Buffers[k]) + Len(LinesOf(Buffers[k + 1])[1]) + 1 > s_max_length
        /\ s_chunks = FlushedFrom(1)

\* two lines of a text were joined into one buffer and the line after
\* them, which did not fit any more, started the next buffer
C23_Witness ==
    /\ s_pc = "done"
    /\ Len(Buffers) = 2
    /\ Len(LinesOf(Buffers[1])) = 2
    /\ Len(NonBlankLines(s_text)) = 3
    /\ Len(Buffers[1]) = s_max_length

\* C24: every chunk split_text returns is at most max_length characters
\* long, whatever the text and max_length >= 1 are, and split_text always
\* comes back; a run of non-whitespace characters longer than max_length
\* comes out in pieces of max_length characters and a rest.
C24_EveryChunkFits ==
    s_pc = "done" =>
        /\ \A k \in 1..Len(s_chunks) : Len(s_chunks[k]) <= s_max_length
        /\ (IsUnbrokenRun(s_text) /\ s_text # << >>) =>
              /\ Concat(s_chunks) = s_text
              /\ \A k \in 1..(Len(s_chunks) - 1) : Len(s_chunks[k]) = s_max_length

\* a text that is one run without whitespace, longer than max_length, was
\* cut into a full piece and a shorter rest
C24_Witness ==
    /\ s_pc = "done"
    /\ IsUnbrokenRun(s_text)
    /\ Len(s_text) > s_max_length
    /\ s_max_length >= 2
    /\ Len(s_chunks) = 2
    /\ Len(s_chunks[1]) = s_max_length
    /\ Len(s_chunks[2]) < s_max_length

\* C25: split_text comes back for every text and every max_length >= 1: in
\* each call of _split_chunk the loop starts at 0, every iteration cuts at or
\* after its window start and leaves start at least one character further,
\* the next iteration begins there, and the last one ends at the end of the
\* buffer, so a buffer takes at most as many iterations as it has characters.
C25_CuttingLoopAdvances ==
    s_pc = "done" =>
        \A f \in 1..Len(s_flushes) :
            LET text == s_flushes[f].text
                iters == s_flushes[f].iters
            IN  /\ Len(iters) <= Len(text)
                /\ Len(text) > s_max_length <=> iters # << >>
                /\ iters # << >> =>
                      /\ iters[1].start = 0
                      /\ iters[Len(iters)].next = Len(text)
                /\ \A j \in 1..Len(iters) :
                      /\ iters[j].best_pos >= iters[j].start
                      /\ iters[j].next > iters[j].start
                      /\ iters[j].next > iters[j].best_pos
                      /\ j < Len(iters) => iters[j + 1].start = iters[j].next

\* a buffer was cut in three iterations or more, one of them cutting at its
\* window start (a window of one character) and one skipping whitespace
C25_Witness ==
    /\ s_pc = "done"
    /\ \E f \in 1..Len(s_flushes) :
          LET iters == s_flushes[f].iters
          IN  /\ Len(iters) >= 3
              /\ \E j \in 1..Len(iters) : iters[j].best_pos = iters[j].start
              /\ \E j \in 1..Len(iters) : iters[j].next > iters[j].best_pos + 1

\* C26: for every text and every max_length >= 1 no chunk split_text returns
\* is empty or made of whitespace only, and none begins or ends with a
\* whitespace character; every piece the cutting loop makes is appended.
C26_NoBlankOrPaddedChunk ==
    s_pc = "done" =>
        /\ \A k \in 1..Len(s_chunks) :
              /\ ~IsBlank(s_chunks[k])
              /\ ~IsSpace(s_chunks[k][1])
              /\ ~IsSpace(s_chunks[k][Len(s_chunks[k])])
        /\ \A f \in 1..Len(s_flushes) :
              \A j \in 1..Len(s_flushes[f].iters) : s_flushes[f].iters[j].emitted

\* a text with whitespace at its ends gave a chunk cut at a space, the space
\* cut off with it and trimmed away
C26_Witness ==
    /\ s_pc = "done"
    /\ s_text # << >>
    /\ IsSpace(s_text[1])
    /\ IsSpace(s_text[Len(s_text)])
    /\ \E f \in 1..Len(s_flushes) :
          \E j \in 1..Len(s_flushes[f].iters) :
              LET it == s_flushes[f].iters[j]
              IN  /\ it.branch = "separator"
                  /\ s_flushes[f].text[it.best_pos + 1] = " "
                  /\ Len(it.chunk) = it.best_pos - it.start

\* the separator that decides the cut of the window at start
BestSeparator(text, start) ==
    FindBestSeparator(text, start, start + s_max_length, 1,
                      [pos |-> -1, priority |-> -1])

\* C27: a buffer split_text has to cut (one longer than max_length) is one
\* line of the text and holds no line feed; a buffer of two lines or more
\* is at most max_length long and goes to the chunks whole; so no cut of a
\* buffer is decided by the paragraph break or the line break (priority 2).
C27_OnlySingleLinesAreCut ==
    s_pc = "done" =>
        \A f \in 1..Len(s_flushes) :
            LET text == s_flushes[f].text
                iters == s_flushes[f].iters
            IN  /\ iters # << >> =>
                      /\ Len(LinesOf(text)) = 1
                      /\ \A k \in 1..Len(text) : text[k] # "\n"
                /\ Len(LinesOf(text)) >= 2 =>
                      /\ iters = << >>
                      /\ SplitChunk(text, s_max_length) = << text >>
                /\ \A j \in 1..Len(iters) :
                      iters[j].branch = "separator" =>
                          /\ BestSeparator(text, iters[j].start).priority \in {0, 1}
                          /\ text[iters[j].best_pos + 1] # "\n"

\* a text of two lines or more, one of them longer than max_length and cut
\* at a separator
C27_Witness ==
    /\ s_pc = "done"
    /\ Len(NonBlankLines(s_text)) >= 2
    /\ \E f \in 1..Len(s_flushes) :
          /\ Len(s_flushes[f].text) > s_max_length
          /\ \E j \in 1..Len(s_flushes[f].iters) :
                s_flushes[f].iters[j].branch = "separator"

FanInStarted ==
    /\ chunks # << >>
    /\ \/ pc = "pool" /\ \A i \in Indices : task[i] = "collected"
       \/ pc \in {"returned", "raised"}

\* C29: when the loop over the indices starts, in both methods, results has
\* exactly the keys 0..N-1, one entry each, the entry of a task that failed
\* being None; so no index is found missing (an index that makes the loop
\* raise has the entry None), and the error "All chunks failed to process"
\* is never raised.
C29_ResultsHasEveryIndex ==
    /\ FanInStarted =>
          /\ {results[k].key : k \in 1..Len(results)} = Indices
          /\ Len(results) = Len(chunks)
          /\ \A i \in Indices :
                /\ DictHas(results, i)
                /\ wav_bytes[i] = None => DictGet(results, i) = None
          /\ pc = "raised" => \E i \in Indices : DictGet(results, i) = None
    /\ error.msg # "All chunks failed to process"

\* a merged request of two chunks or more in which every task failed: the
\* fan-in found the entry None under every index and raised at the first
C29_Witness ==
    /\ pc = "raised"
    /\ mode = "Merged"
    /\ Len(chunks) >= 2
    /\ Len(results) = Len(chunks)
    /\ \A i \in Indices : DictHas(results, i) /\ DictGet(results, i) = None
    /\ error.msg = "Chunks process failed"

\* C30: in Merged mode the task of a chunk whose synthesis returned a
\* payload and whose enhancement gave a segment without an error hands that
\* segment to the fan-in, however short the segment is (no frame at all, or
\* less than a millisecond), and a request in which no synthesis and no
\* enhancement failed returns the merged track.
C30_EnhancedChunkIsSuccess ==
    mode = "Merged" =>
        /\ \A i \in Indices :
              (task[i] \in {"done", "collected"} /\ ~TaskFailed(i)) =>
                  future[i].value = EnhanceWavBytes(wav_bytes[i])
        /\ (Finished /\ \A i \in Indices : ~TaskFailed(i)) =>
              /\ pc = "returned"
              /\ error = NoError

====
